---- MODULE Spec2Model ----
(***************************************************************************)
(* Model of dataconnect.js: the OAuth2 authenticator                       *)
(* (authenticateSalesforce) and the lead workflow (createLead,             *)
(* getLeadDetails, saveLeadToFile and the top-level async sequence).       *)
(* The HTTP client, the file system and the clock are the environment:     *)
(* their answers are chosen nondeterministically from small sets.          *)
(***************************************************************************)
EXTENDS Integers, Sequences, FiniteSets, TLC

(***************************************************************************)
(* Bounds of the model.                                                    *)
(***************************************************************************)
\* number of invocations of the script that are explored
MaxRuns == 2
\* the clock readings are Instant(0) .. Instant(MaxTick), one ms apart
MaxTick == 2

(***************************************************************************)
(* JavaScript values.  Every value is a tagged record, an object is a      *)
(* sequence of key/value pairs in insertion order.                         *)
(***************************************************************************)
Undefined == [t |-> "undefined"]
Str(s) == [t |-> "string", s |-> s]
Num(n) == [t |-> "number", n |-> n]
Obj(pairs) == [t |-> "object", p |-> pairs]
Pair(k, v) == [k |-> k, v |-> v]

\* JavaScript truthiness, as used by  !config[field]  and by  a || b
Truthy(v) ==
    CASE v.t = "undefined" -> FALSE
      [] v.t = "string" -> v.s # ""
      [] v.t = "number" -> v.n # 0
      [] OTHER -> TRUE

\* a || b
OrElse(a, b) == IF Truthy(a) THEN a ELSE b

\* property access  o[k] : undefined when o has no own property k
Get(o, k) ==
    IF o.t = "object" /\ \E i \in 1..Len(o.p) : o.p[i].k = k
    THEN o.p[CHOOSE i \in 1..Len(o.p) : o.p[i].k = k].v
    ELSE Undefined

\* conversion to string inside a template literal `${v}`
ToStr(v) ==
    CASE v.t = "undefined" -> "undefined"
      [] v.t = "string" -> v.s
      [] v.t = "object" -> "[object Object]"

(***************************************************************************)
(* JSON.stringify(value, null, 2) and JSON.parse, on token sequences.      *)
(***************************************************************************)
Punct(s) == [k |-> "punct", s |-> s]
Indent(n) == [k |-> "newline", n |-> n]
StrTok(s) == [k |-> "string", s |-> s]
NumTok(n) == [k |-> "number", n |-> n]

RECURSIVE StringifyValue(_, _)
RECURSIVE StringifyPairs(_, _, _)
\* the members of an object, one per line, separated by commas; a member
\* whose value is undefined is left out
StringifyPairs(pairs, depth, first) ==
    IF pairs = << >> THEN << >>
    ELSE LET h == Head(pairs)
         IN  IF h.v.t = "undefined"
             THEN StringifyPairs(Tail(pairs), depth, first)
             ELSE (IF first THEN << >> ELSE <<Punct(",")>>)
                  \o <<Indent(2 * depth), StrTok(h.k), Punct(":")>>
                  \o StringifyValue(h.v, depth)
                  \o StringifyPairs(Tail(pairs), depth, FALSE)

StringifyValue(v, depth) ==
    CASE v.t = "string" -> <<StrTok(v.s)>>
      [] v.t = "number" -> <<NumTok(v.n)>>
      [] v.t = "object" ->
           LET body == StringifyPairs(v.p, depth + 1, TRUE)
           IN  IF body = << >> THEN <<Punct("{"), Punct("}")>>
               ELSE <<Punct("{")>> \o body \o <<Indent(2 * depth), Punct("}")>>
      [] OTHER -> << >>

\* a serialisation that loses the last member of an object
JSONStringifyDropsLast(v) ==
    IF v.t = "undefined" THEN Undefined
    ELSE IF v.t = "object" /\ Len(v.p) > 0
         THEN [t |-> "text", toks |-> StringifyValue(Obj(SubSeq(v.p, 1, Len(v.p) - 1)), 0)]
         ELSE [t |-> "text", toks |-> StringifyValue(v, 0)]

\* JSON.stringify(v, null, 2): undefined (not a string) for undefined,
\* the text otherwise
JSONStringify(v) ==
    IF v.t = "undefined" THEN Undefined
    ELSE [t |-> "text", toks |-> StringifyValue(v, 0)]

\* position of the first token at or after i that is not white space
RECURSIVE SkipWs(_, _)
SkipWs(toks, i) ==
    IF i <= Len(toks) /\ toks[i].k = "newline" THEN SkipWs(toks, i + 1) ELSE i

RECURSIVE ParseValue(_, _)
RECURSIVE ParseMembers(_, _, _)
\* members of an object from position i on, up to the closing brace
ParseMembers(toks, i, acc) ==
    LET j == SkipWs(toks, i)
    IN  IF toks[j] = Punct("}") THEN [v |-> Obj(acc), next |-> j + 1]
        ELSE IF toks[j] = Punct(",") THEN ParseMembers(toks, j + 1, acc)
        ELSE LET key == toks[j].s
                 val == ParseValue(toks, SkipWs(toks, j + 1) + 1)
             IN  ParseMembers(toks, val.next, Append(acc, Pair(key, val.v)))

ParseValue(toks, i) ==
    LET j == SkipWs(toks, i)
    IN  CASE toks[j].k = "string" -> [v |-> Str(toks[j].s), next |-> j + 1]
          [] toks[j].k = "number" -> [v |-> Num(toks[j].n), next |-> j + 1]
          [] OTHER -> ParseMembers(toks, j + 1, << >>)

JSONParse(text) == ParseValue(text.toks, 1).v

(***************************************************************************)
(* The clock and Date.prototype.toISOString.  An instant is kept as the    *)
(* day number since 1970-01-01 and the millisecond of that day.            *)
(***************************************************************************)
MsPerDay == 24 * 60 * 60 * 1000

\* the instant  2026-11-06T23:59:59.999Z + i ms
Instant(i) ==
    LET total == (MsPerDay - 1) + i
    IN  [day |-> 20763 + (total \div MsPerDay), ms |-> total % MsPerDay]

\* the readings  new Date()  can give
ClockValues == {[day |-> 0, ms |-> 0]} \cup {Instant(i) : i \in 0..MaxTick}

DigitChar(d) == <<"0", "1", "2", "3", "4", "5", "6", "7", "8", "9">>[d + 1]

\* n in decimal, padded with zeros to w characters
RECURSIVE Pad(_, _)
Pad(n, w) == IF w = 0 THEN << >> ELSE Append(Pad(n \div 10, w - 1), DigitChar(n % 10))

\* year, month and day of the month of a day number (proleptic Gregorian)
CivilFromDays(days) ==
    LET z == days + 719468
        era == z \div 146097
        doe == z - era * 146097
        yoe == (doe - (doe \div 1460) + (doe \div 36524) - (doe \div 146096)) \div 365
        doy == doe - (365 * yoe + (yoe \div 4) - (yoe \div 100))
        mp == (5 * doy + 2) \div 153
        d == doy - ((153 * mp + 2) \div 5) + 1
        m == IF mp < 10 THEN mp + 3 ELSE mp - 9
        y == yoe + era * 400 + (IF m <= 2 THEN 1 ELSE 0)
    IN  [year |-> y, month |-> m, date |-> d]

\* a rendering that stops at the seconds
toISOStringSeconds(now) ==
    LET c == CivilFromDays(now.day)
        secs == now.ms \div 1000
    IN  Pad(c.year, 4) \o <<"-">> \o Pad(c.month, 2) \o <<"-">> \o Pad(c.date, 2)
        \o <<"T">> \o Pad(secs \div 3600, 2) \o <<":">> \o Pad((secs \div 60) % 60, 2)
        \o <<":">> \o Pad(secs % 60, 2) \o <<"Z">>

\* YYYY-MM-DDTHH:mm:ss.sssZ, as a sequence of characters
toISOString(now) ==
    LET c == CivilFromDays(now.day)
        secs == now.ms \div 1000
    IN  Pad(c.year, 4) \o <<"-">> \o Pad(c.month, 2) \o <<"-">> \o Pad(c.date, 2)
        \o <<"T">> \o Pad(secs \div 3600, 2) \o <<":">> \o Pad((secs \div 60) % 60, 2)
        \o <<":">> \o Pad(secs % 60, 2) \o <<".">> \o Pad(now.ms % 1000, 3) \o <<"Z">>

\* a replacement that forgets the period
ReplaceColonOnly(c) == IF c = ":" THEN "-" ELSE c

\* what  /[:.]/g -> '-'  does to one character
ReplaceChar(c) == IF c \in {":", "."} THEN "-" ELSE c

\* str.replace(/[:.]/g, '-')
ReplaceAll(str) == [i \in 1..Len(str) |-> ReplaceChar(str[i])]

\* the timestamp of saveLeadToFile
Timestamp(now) == ReplaceAll(toISOString(now))

\* `lead-${timestamp}.json`
Filename(timestamp) ==
    <<"l", "e", "a", "d", "-">> \o timestamp \o <<".", "j", "s", "o", "n">>

(***************************************************************************)
(* The environment: the two input files and the answers of the server.     *)
(***************************************************************************)
\* a list of required fields that forgets the password
RequiredFieldsButPassword == <<"grant_type", "client_id", "client_secret", "username">>

\* line 41: the fields the configuration must carry, in the order checked
RequiredFields == <<"grant_type", "client_id", "client_secret", "username", "password">>

\* the keys a config.json can carry, and what it can hold under each
ConfigKeys == <<"grant_type", "client_id", "client_secret", "username", "password">>

FieldChoices == {"absent", "empty", "set"}

\* the configuration object in which key ConfigKeys[i] is as c[i] says
RECURSIVE ConfigPairs(_, _)
ConfigPairs(c, i) ==
    IF i > 5 THEN << >>
    ELSE (CASE c[i] = "absent" -> << >>
            [] c[i] = "empty" -> <<Pair(ConfigKeys[i], Str(""))>>
            [] OTHER -> <<Pair(ConfigKeys[i], Str("v"))>>)
         \o ConfigPairs(c, i + 1)

\* config.json: not there, not JSON, or an object
ConfigFiles ==
    {[state |-> "missing"], [state |-> "invalid"]}
    \cup {[state |-> "parsed", value |-> Obj(ConfigPairs(c, 1))] : c \in [1..5 -> FieldChoices]}

LeadModel == Obj(<<Pair("FirstName", Str("Ada")), Pair("Company", Str("Acme"))>>)

\* leadModel.json: not there, not JSON, or an object
TemplateFiles ==
    {[state |-> "missing"], [state |-> "invalid"], [state |-> "parsed", value |-> LeadModel]}

\* bodies a 2xx answer of the token endpoint can carry
AuthBodies ==
    { Obj(<<Pair("access_token", Str("T1")), Pair("instance_url", Str("https://a.example"))>>),
      Obj(<<Pair("access_token", Str("T2")), Pair("instance_url", Str("https://b.example")),
            Pair("token_type", Str("Bearer"))>>),
      Obj(<< >>) }

\* bodies a 2xx answer of the create endpoint can carry
CreateBodies ==
    { Obj(<<Pair("id", Str("00Q1")), Pair("success", Str("true"))>>),
      Obj(<<Pair("id", Str("00Q2"))>>),
      Obj(<<Pair("success", Str("true"))>>) }

\* bodies a 2xx answer of the read endpoint can carry
ReadBodies ==
    { Obj(<<Pair("attributes", Obj(<<Pair("type", Str("Lead"))>>)), Pair("Id", Str("00Q1")),
            Pair("NumberOfEmployees", Num(7))>>),
      Obj(<<Pair("Id", Str("00Q2"))>>),
      Str("") }

ErrorBody == Obj(<<Pair("errorCode", Str("INVALID")), Pair("message", Str("rejected"))>>)

\* the ways a request fails: no answer at all, a non-2xx answer with an
\* empty body, a non-2xx answer with a body
Rejections ==
    { [outcome |-> "rejected", response |-> Undefined, message |-> Str("Network Error")],
      [outcome |-> "rejected", response |-> [status |-> 400, data |-> Str("")],
       message |-> Str("Request failed with status code 400")],
      [outcome |-> "rejected", response |-> [status |-> 400, data |-> ErrorBody],
       message |-> Str("Request failed with status code 400")] }

Resolved(body) == [outcome |-> "resolved", response |-> [status |-> 200, data |-> body]]

NoReply == [outcome |-> "none"]

(***************************************************************************)
(* State.                                                                  *)
(***************************************************************************)
VARIABLES
    run,            \* number of the current invocation of the script
    pc,             \* where the invocation stands
    configFile,     \* config.json as it is on disk during this invocation
    templateFile,   \* leadModel.json as it is on disk during this invocation
    requests,       \* the HTTP requests issued so far in this invocation
    inflight,       \* the requests issued and not yet answered
    tokenReply,     \* what the token endpoint answered
    createReply,    \* what the create endpoint answered
    readReply,      \* what the read endpoint answered
    authResponse,   \* line 145
    createResponse, \* line 158
    leadDetails,    \* line 162
    stderr,         \* what console.error has printed in this invocation
    exitCode,       \* argument of process.exit, -1 while it was not called
    saved,          \* what saveLeadToFile did in this invocation
    saveResult,     \* what saveLeadToFile handed back to its caller
    files,          \* lead-*.json files on disk: set of [name, content]
    history,        \* the successful writes of all invocations, in order
    trace           \* the steps of this invocation, in order

vars == <<run, pc, configFile, templateFile, requests, inflight, tokenReply,
          createReply, readReply, authResponse, createResponse, leadDetails,
          stderr, exitCode, saved, saveResult, files, history, trace>>

env == <<configFile, templateFile>>
disk == <<files, history>>
replies == <<tokenReply, createReply, readReply>>
results == <<authResponse, createResponse, leadDetails>>
saving == <<saved, saveResult>>

NotSaved == [outcome |-> "none"]

Init ==
    /\ run = 1
    /\ pc = "start"
    /\ configFile \in ConfigFiles
    /\ templateFile \in TemplateFiles
    /\ requests = << >>
    /\ inflight = {}
    /\ tokenReply = NoReply
    /\ createReply = NoReply
    /\ readReply = NoReply
    /\ authResponse = Undefined
    /\ createResponse = Undefined
    /\ leadDetails = Undefined
    /\ stderr = << >>
    /\ exitCode = -1
    /\ saved = NotSaved
    /\ saveResult = Undefined
    /\ files = {}
    /\ history = << >>
    /\ trace = << >>

(***************************************************************************)
(* authenticateSalesforce, lines 10-68.                                    *)
(***************************************************************************)
Log(text, arg) == [text |-> text, arg |-> arg]

\* a loop over the required fields that keeps the last lacking one
RECURSIVE LastMissingFrom(_, _)
LastMissingFrom(config, i) ==
    IF i > Len(RequiredFields) THEN ""
    ELSE IF LastMissingFrom(config, i + 1) # "" THEN LastMissingFrom(config, i + 1)
    ELSE IF ~Truthy(Get(config, RequiredFields[i])) THEN RequiredFields[i]
    ELSE ""

\* lines 42-47: the first required field for which !config[field] holds,
\* "" when there is none
RECURSIVE FirstMissingFrom(_, _)
FirstMissingFrom(config, i) ==
    IF i > Len(RequiredFields) THEN ""
    ELSE IF ~Truthy(Get(config, RequiredFields[i])) THEN RequiredFields[i]
    ELSE FirstMissingFrom(config, i + 1)

\* a check that reports the last lacking field
MissingFieldLast(config) == LastMissingFrom(config, 1)

\* lines 42-47, from the first required field on
MissingField(config) == FirstMissingFrom(config, 1)

\* line 50: qs.stringify(config), key=value joined by &
RECURSIVE FormEncode(_)
FormEncode(pairs) ==
    IF pairs = << >> THEN << >>
    ELSE IF Head(pairs).v.t = "undefined" THEN FormEncode(Tail(pairs))
    ELSE <<Head(pairs).k, "=", ToStr(Head(pairs).v)>>
         \o (IF FormEncode(Tail(pairs)) = << >> THEN << >> ELSE <<"&">>)
         \o FormEncode(Tail(pairs))

\* lines 51-56
TokenRequest(config) ==
    [kind |-> "token", method |-> "post",
     url |-> "https://login.salesforce.com/services/oauth2/token",
     auth |-> "", data |-> [form |-> FormEncode(config.p)]]

\* error.response?.data
ResponseData(error) ==
    IF error.response = Undefined THEN Undefined ELSE error.response.data

\* a report that only ever shows the message
ErrorDetailMessageOnly(error) == error.message

\* error.response?.data || error.message  (lines 65, 96, 120)
ErrorDetail(error) == OrElse(ResponseData(error), error.message)

\* a return value cut down to the two fields the caller uses
AuthReturnPicked(response) ==
    Obj(<<Pair("access_token", Get(response.data, "access_token")),
          Pair("instance_url", Get(response.data, "instance_url"))>>)

\* line 63
AuthReturn(response) == response.data

\* lines 14-29: config.json is not there
ConfigMissingExit ==
    /\ pc = "start"
    /\ configFile.state = "missing"
    /\ stderr' = Append(stderr, Log("Error: Configuration file not found.", Undefined))
    /\ exitCode' = 1
    /\ pc' = "exit"
    /\ trace' = trace \o <<"authenticate:start", "authenticate:fail">>
    /\ UNCHANGED <<run, env, requests, inflight, replies, results, saving, disk>>

\* lines 32-38: config.json does not parse
ConfigInvalidExit ==
    /\ pc = "start"
    /\ configFile.state = "invalid"
    /\ stderr' = Append(stderr, Log("Error reading configuration file:", Str("Unexpected token")))
    /\ exitCode' = 1
    /\ pc' = "exit"
    /\ trace' = trace \o <<"authenticate:start", "authenticate:fail">>
    /\ UNCHANGED <<run, env, requests, inflight, replies, results, saving, disk>>

\* lines 40-47: a required field is missing
ConfigIncompleteExit ==
    /\ pc = "start"
    /\ configFile.state = "parsed"
    /\ MissingField(configFile.value) # ""
    /\ stderr' = Append(stderr, Log("Error: Missing required field in configuration file.",
                                    Str(MissingField(configFile.value))))
    /\ exitCode' = 1
    /\ pc' = "exit"
    /\ trace' = trace \o <<"authenticate:start", "authenticate:fail">>
    /\ UNCHANGED <<run, env, requests, inflight, replies, results, saving, disk>>

\* lines 11-60: the configuration is complete, the token request goes out
SendTokenRequest ==
    /\ pc = "start"
    /\ configFile.state = "parsed"
    /\ MissingField(configFile.value) = ""
    /\ requests' = Append(requests, TokenRequest(configFile.value))
    /\ inflight' = inflight \cup {TokenRequest(configFile.value)}
    /\ pc' = "await_token"
    /\ trace' = Append(trace, "authenticate:start")
    /\ UNCHANGED <<run, env, replies, results, stderr, exitCode, saving, disk>>

\* lines 60-63: the token endpoint answers 2xx
TokenResolved ==
    /\ pc = "await_token"
    /\ \E body \in AuthBodies :
         /\ tokenReply' = Resolved(body)
         /\ authResponse' = AuthReturn(Resolved(body).response)
    /\ inflight' = {r \in inflight : r.kind # "token"}
    /\ pc' = "authenticated"
    /\ trace' = Append(trace, "authenticate:ok")
    /\ UNCHANGED <<run, env, requests, createReply, readReply, createResponse,
                   leadDetails, stderr, exitCode, saving, disk>>

\* a failure of the token request after which authentication starts over
TokenRejectedRetries ==
    /\ pc = "await_token"
    /\ Len(requests) < 3
    /\ \E error \in Rejections :
         /\ tokenReply' = error
         /\ stderr' = Append(stderr, Log("Authentication failed:", ErrorDetail(error)))
    /\ inflight' = {r \in inflight : r.kind # "token"}
    /\ pc' = "start"
    /\ trace' = Append(trace, "authenticate:fail")
    /\ UNCHANGED <<run, env, requests, createReply, readReply, results, exitCode,
                   saving, disk>>

\* lines 64-67 and 166-168: the token request fails
TokenRejected ==
    /\ pc = "await_token"
    /\ \E error \in Rejections :
         /\ tokenReply' = error
         /\ stderr' = stderr \o <<Log("Authentication failed:", ErrorDetail(error)),
                                  Log("Error:", error.message)>>
    /\ inflight' = {r \in inflight : r.kind # "token"}
    /\ pc' = "failed"
    /\ trace' = Append(trace, "authenticate:fail")
    /\ UNCHANGED <<run, env, requests, createReply, readReply, results, exitCode,
                   saving, disk>>

(***************************************************************************)
(* createLead, getLeadDetails, saveLeadToFile and the top-level sequence,  *)
(* lines 84-169.                                                           *)
(***************************************************************************)
\* line 85
CreateEndpoint(instanceUrl) ==
    ToStr(instanceUrl) \o "/services/data/v57.0/sobjects/Lead"

\* an endpoint that names the collection instead of the record
LeadEndpointWithoutId(instanceUrl, leadId) ==
    ToStr(instanceUrl) \o "/services/data/v57.0/sobjects/Lead/"

\* line 109
LeadEndpoint(instanceUrl, leadId) ==
    ToStr(instanceUrl) \o "/services/data/v57.0/sobjects/Lead/" \o ToStr(leadId)

\* lines 86-89 and 110-112
Bearer(accessToken) == "Bearer " \o ToStr(accessToken)

\* lines 85-92
CreateRequest(instanceUrl, accessToken, leadData) ==
    [kind |-> "create", method |-> "post", url |-> CreateEndpoint(instanceUrl),
     auth |-> Bearer(accessToken), data |-> [json |-> leadData]]

\* lines 109-115
ReadRequest(instanceUrl, accessToken, leadId) ==
    [kind |-> "read", method |-> "get", url |-> LeadEndpoint(instanceUrl, leadId),
     auth |-> Bearer(accessToken), data |-> [none |-> TRUE]]

\* a missing leadModel.json that is not noticed: the create request goes
\* out without a payload
TemplateMissingIgnored ==
    /\ pc = "authenticated"
    /\ templateFile.state = "missing"
    /\ LET request == [kind |-> "create", method |-> "post",
                       url |-> ToStr(Get(authResponse, "instance_url"))
                               \o "/services/data/v57.0/sobjects/Lead",
                       auth |-> "Bearer " \o ToStr(Get(authResponse, "access_token")),
                       data |-> [json |-> Undefined]]
       IN  /\ requests' = Append(requests, request)
           /\ inflight' = inflight \cup {request}
    /\ pc' = "await_create"
    /\ trace' = trace \o <<"template:start", "template:ok", "create:start">>
    /\ UNCHANGED <<run, env, replies, results, stderr, exitCode, saving, disk>>

\* lines 149-153: leadModel.json is not there
TemplateMissingExit ==
    /\ pc = "authenticated"
    /\ templateFile.state = "missing"
    /\ stderr' = Append(stderr, Log("Error: leadModel.json not found.", Undefined))
    /\ exitCode' = 1
    /\ pc' = "exit"
    /\ trace' = trace \o <<"template:start", "template:fail">>
    /\ UNCHANGED <<run, env, requests, inflight, replies, results, saving, disk>>

\* lines 155 and 166-168: leadModel.json does not parse
TemplateInvalid ==
    /\ pc = "authenticated"
    /\ templateFile.state = "invalid"
    /\ stderr' = Append(stderr, Log("Error:", Str("Unexpected token")))
    /\ pc' = "failed"
    /\ trace' = trace \o <<"template:start", "template:fail">>
    /\ UNCHANGED <<run, env, requests, inflight, replies, results, exitCode, saving, disk>>

\* lines 146-158 and 85-92: the template is read and the create request
\* goes out
SendCreate ==
    /\ pc = "authenticated"
    /\ templateFile.state = "parsed"
    /\ LET request == CreateRequest(Get(authResponse, "instance_url"),
                                    Get(authResponse, "access_token"),
                                    templateFile.value)
       IN  /\ requests' = Append(requests, request)
           /\ inflight' = inflight \cup {request}
    /\ pc' = "await_create"
    /\ trace' = trace \o <<"template:start", "template:ok", "create:start">>
    /\ UNCHANGED <<run, env, replies, results, stderr, exitCode, saving, disk>>

\* lines 92-94: the create endpoint answers 2xx
CreateResolved ==
    /\ pc = "await_create"
    /\ \E body \in CreateBodies :
         /\ createReply' = Resolved(body)
         /\ createResponse' = Resolved(body).response.data
    /\ inflight' = {r \in inflight : r.kind # "create"}
    /\ pc' = "created"
    /\ trace' = Append(trace, "create:ok")
    /\ UNCHANGED <<run, env, requests, tokenReply, readReply, authResponse,
                   leadDetails, stderr, exitCode, saving, disk>>

\* a failure of the create call that is logged and not thrown again
CreateRejectedSwallowed ==
    /\ pc = "await_create"
    /\ \E error \in Rejections :
         /\ createReply' = error
         /\ stderr' = Append(stderr, Log("Error creating lead:", ErrorDetail(error)))
    /\ inflight' = {r \in inflight : r.kind # "create"}
    /\ pc' = "created"
    /\ trace' = Append(trace, "create:fail")
    /\ UNCHANGED <<run, env, requests, tokenReply, readReply, results, exitCode,
                   saving, disk>>

\* lines 95-98 and 166-168: the create request fails
CreateRejected ==
    /\ pc = "await_create"
    /\ \E error \in Rejections :
         /\ createReply' = error
         /\ stderr' = stderr \o <<Log("Error creating lead:", ErrorDetail(error)),
                                  Log("Error:", error.message)>>
    /\ inflight' = {r \in inflight : r.kind # "create"}
    /\ pc' = "failed"
    /\ trace' = Append(trace, "create:fail")
    /\ UNCHANGED <<run, env, requests, tokenReply, readReply, results, exitCode,
                   saving, disk>>

\* a read-back that does not wait for the answer of the create call
SendReadNoAwait ==
    /\ pc \in {"await_create", "created"}
    /\ LET request == ReadRequest(Get(authResponse, "instance_url"),
                                  Get(authResponse, "access_token"),
                                  Get(createResponse, "id"))
       IN  /\ requests' = Append(requests, request)
           /\ inflight' = inflight \cup {request}
    /\ pc' = "await_read"
    /\ trace' = Append(trace, "read:start")
    /\ UNCHANGED <<run, env, replies, results, stderr, exitCode, saving, disk>>

\* a read-back that is given up when the create answer carries no id
SendReadIfId ==
    /\ pc = "created"
    /\ IF Get(createResponse, "id") = Undefined
       THEN /\ stderr' = Append(stderr, Log("Error:", Str("no id in create response")))
            /\ pc' = "failed"
            /\ trace' = Append(trace, "create:fail")
            /\ UNCHANGED <<requests, inflight>>
       ELSE /\ LET request == ReadRequest(Get(authResponse, "instance_url"),
                                          Get(authResponse, "access_token"),
                                          Get(createResponse, "id"))
               IN  /\ requests' = Append(requests, request)
                   /\ inflight' = inflight \cup {request}
            /\ pc' = "await_read"
            /\ trace' = Append(trace, "read:start")
            /\ UNCHANGED stderr
    /\ UNCHANGED <<run, env, replies, results, exitCode, saving, disk>>

\* lines 159-162 and 109-115: the read request goes out
SendRead ==
    /\ pc = "created"
    /\ LET request == ReadRequest(Get(authResponse, "instance_url"),
                                  Get(authResponse, "access_token"),
                                  Get(createResponse, "id"))
       IN  /\ requests' = Append(requests, request)
           /\ inflight' = inflight \cup {request}
    /\ pc' = "await_read"
    /\ trace' = Append(trace, "read:start")
    /\ UNCHANGED <<run, env, replies, results, stderr, exitCode, saving, disk>>

\* an answer of the read endpoint after which the sequence is not resumed
ReadResolvedHangs ==
    /\ pc = "await_read"
    /\ \E body \in ReadBodies :
         /\ readReply' = Resolved(body)
         /\ leadDetails' = Resolved(body).response.data
    /\ inflight' = {r \in inflight : r.kind # "read"}
    /\ pc' = "hung"
    /\ trace' = Append(trace, "read:ok")
    /\ UNCHANGED <<run, env, requests, tokenReply, createReply, authResponse,
                   createResponse, stderr, exitCode, saving, disk>>

\* lines 115-118: the read endpoint answers 2xx
ReadResolved ==
    /\ pc = "await_read"
    /\ \E body \in ReadBodies :
         /\ readReply' = Resolved(body)
         /\ leadDetails' = Resolved(body).response.data
    /\ inflight' = {r \in inflight : r.kind # "read"}
    /\ pc' = "retrieved"
    /\ trace' = Append(trace, "read:ok")
    /\ UNCHANGED <<run, env, requests, tokenReply, createReply, authResponse,
                   createResponse, stderr, exitCode, saving, disk>>

\* a failure of the read call that ends the process with status 1
ReadRejectedExits ==
    /\ pc = "await_read"
    /\ \E error \in Rejections :
         /\ readReply' = error
         /\ stderr' = Append(stderr, Log("Error retrieving lead details:", ErrorDetail(error)))
    /\ inflight' = {r \in inflight : r.kind # "read"}
    /\ exitCode' = 1
    /\ pc' = "exit"
    /\ trace' = Append(trace, "read:fail")
    /\ UNCHANGED <<run, env, requests, tokenReply, createReply, results, saving, disk>>

\* lines 119-122 and 166-168: the read request fails
ReadRejected ==
    /\ pc = "await_read"
    /\ \E error \in Rejections :
         /\ readReply' = error
         /\ stderr' = stderr \o <<Log("Error retrieving lead details:", ErrorDetail(error)),
                                  Log("Error:", error.message)>>
    /\ inflight' = {r \in inflight : r.kind # "read"}
    /\ pc' = "failed"
    /\ trace' = Append(trace, "read:fail")
    /\ UNCHANGED <<run, env, requests, tokenReply, createReply, results, exitCode,
                   saving, disk>>

\* lines 129-136: the file is written; nothing is returned
SaveLeadToFileWritten ==
    /\ pc = "retrieved"
    /\ JSONStringify(leadDetails).t = "text"
    /\ \E now \in ClockValues :
         LET filename == Filename(Timestamp(now))
             content == JSONStringify(leadDetails)
         IN  /\ files' = {f \in files : f.name # filename}
                         \cup {[name |-> filename, content |-> content]}
             /\ saved' = [outcome |-> "written", name |-> filename, now |-> now]
             /\ history' = Append(history, [run |-> run, now |-> now, name |-> filename,
                                            details |-> leadDetails])
    /\ saveResult' = Undefined
    /\ pc' = "done"
    /\ trace' = trace \o <<"persist:start", "persist:ok">>
    /\ UNCHANGED <<run, env, requests, inflight, replies, results, stderr, exitCode>>

\* lines 134-139: writeFileSync throws, the error is printed and dropped
SaveLeadToFileError ==
    /\ pc = "retrieved"
    /\ stderr' = Append(stderr, Log("Error saving lead details to file:",
                                    Str("EACCES: permission denied")))
    /\ saved' = [outcome |-> "error"]
    /\ saveResult' = Undefined
    /\ pc' = "done"
    /\ trace' = trace \o <<"persist:start", "persist:fail">>
    /\ UNCHANGED <<run, env, requests, inflight, replies, results, exitCode, disk>>

\* the script is invoked again
NewRun ==
    /\ pc \in {"exit", "failed", "done"}
    /\ run < MaxRuns
    /\ run' = run + 1
    /\ pc' = "start"
    /\ configFile' \in ConfigFiles
    /\ templateFile' \in TemplateFiles
    /\ requests' = << >>
    /\ inflight' = {}
    /\ tokenReply' = NoReply
    /\ createReply' = NoReply
    /\ readReply' = NoReply
    /\ authResponse' = Undefined
    /\ createResponse' = Undefined
    /\ leadDetails' = Undefined
    /\ stderr' = << >>
    /\ exitCode' = -1
    /\ saved' = NotSaved
    /\ saveResult' = Undefined
    /\ trace' = << >>
    /\ UNCHANGED disk

Next ==
    \/ ConfigMissingExit
    \/ ConfigInvalidExit
    \/ ConfigIncompleteExit
    \/ SendTokenRequest
    \/ TokenResolved
    \/ TokenRejected
    \/ TemplateMissingExit
    \/ TemplateInvalid
    \/ SendCreate
    \/ CreateResolved
    \/ CreateRejected
    \/ SendRead
    \/ ReadResolved
    \/ ReadRejected
    \/ SaveLeadToFileWritten
    \/ SaveLeadToFileError
    \/ NewRun

Spec == Init /\ [][Next]_vars

\* the steps the script takes by itself: the event loop runs every
\* continuation that is ready
ProgramStep ==
    \/ ConfigMissingExit
    \/ ConfigInvalidExit
    \/ ConfigIncompleteExit
    \/ SendTokenRequest
    \/ TemplateMissingExit
    \/ TemplateInvalid
    \/ SendCreate
    \/ SendRead
    \/ SaveLeadToFileWritten
    \/ SaveLeadToFileError

\* the steps that wait for the HTTP client to settle a request
Answer ==
    \/ TokenResolved
    \/ TokenRejected
    \/ CreateResolved
    \/ CreateRejected
    \/ ReadResolved
    \/ ReadRejected

\* one invocation, from its start to its end
RunNext == ProgramStep \/ Answer

\* one invocation when every ready continuation is run and every issued
\* request is settled in the end
LiveSpec == Init /\ [][RunNext]_vars /\ WF_vars(ProgramStep) /\ WF_vars(Answer)

(***************************************************************************)
(* Properties.                                                             *)
(***************************************************************************)
Kinds(reqs) == [i \in 1..Len(reqs) |-> reqs[i].kind]
Issued(kind) == \E i \in 1..Len(requests) : requests[i].kind = kind

\* the configuration keys that are absent from config or hold ""
Lacking(config) ==
    {f \in {ConfigKeys[i] : i \in 1..Len(ConfigKeys)} :
        \A i \in 1..Len(config.p) : config.p[i].k = f => config.p[i].v = Str("")}

\* C1: once authenticate has looked at a configuration that lacks one of
\* the five required fields, the invocation has exited with status 1, the
\* one message printed names a lacking field (the lacking field when there
\* is a single one), and no request was issued.
C1_IncompleteConfigFails ==
    (configFile.state = "parsed" /\ Lacking(configFile.value) # {} /\ pc # "start")
    => /\ pc = "exit"
       /\ exitCode = 1
       /\ requests = << >>
       /\ inflight = {}
       /\ \E f \in Lacking(configFile.value) :
            stderr = <<Log("Error: Missing required field in configuration file.", Str(f))>>

C1_Witness ==
    /\ pc = "exit"
    /\ configFile.state = "parsed"
    /\ Lacking(configFile.value) = {"password"}
    /\ stderr = <<Log("Error: Missing required field in configuration file.", Str("password"))>>

\* C2: when the create call was answered with a failure, no read request
\* is issued and no file is written in that invocation, and when the
\* answer carried a body that body is among what was printed.
C2_CreateFailureStops ==
    createReply.outcome = "rejected"
    => /\ ~Issued("read")
       /\ saved = NotSaved
       /\ \A i \in 1..Len(history) : history[i].run # run
       /\ (createReply.response # Undefined /\ createReply.response.data # Str(""))
          => \E i \in 1..Len(stderr) : stderr[i].arg = createReply.response.data

C2_Witness ==
    /\ pc = "failed"
    /\ createReply.outcome = "rejected"
    /\ createReply.response # Undefined
    /\ createReply.response.data = ErrorBody

StepNames == <<"authenticate", "template", "create", "read", "persist">>

RECURSIVE FullOrderFrom(_)
FullOrderFrom(n) ==
    IF n > Len(StepNames) THEN << >>
    ELSE <<StepNames[n] \o ":start", StepNames[n] \o ":ok">> \o FullOrderFrom(n + 1)

FullOrder == FullOrderFrom(1)

IsPrefix(s, t) == Len(s) <= Len(t) /\ s = SubSeq(t, 1, Len(s))

\* C3: the steps start in the order authenticate, template, create, read,
\* persist, each after the one before it has succeeded, and after a step
\* has failed no step starts; the requests and the file follow that order.
C3_StrictOrder ==
    /\ \/ IsPrefix(trace, FullOrder)
       \/ \E n \in 1..Len(StepNames) :
            trace = SubSeq(FullOrder, 1, 2 * n - 1) \o <<StepNames[n] \o ":fail">>
    /\ IsPrefix(Kinds(requests), <<"token", "create", "read">>)
    /\ Issued("create") => (tokenReply.outcome = "resolved" /\ templateFile.state = "parsed")
    /\ Issued("read") => createReply.outcome = "resolved"
    /\ saved # NotSaved => readReply.outcome = "resolved"

C3_Witness ==
    /\ trace = FullOrder
    /\ saved.outcome = "written"
    /\ Kinds(requests) = <<"token", "create", "read">>

\* C4 as stated: in an invocation where config.json or leadModel.json is
\* missing no request is ever issued.
C4_NoRequestWhenAFileIsMissing ==
    (configFile.state = "missing" \/ templateFile.state = "missing") => requests = << >>

\* C4 amended: with config.json missing no request is ever issued; with
\* leadModel.json missing no create and no read request is ever issued,
\* and the invocation exits right after the token exchange has succeeded.
C4_MissingFileStops ==
    /\ configFile.state = "missing" => requests = << >>
    /\ templateFile.state = "missing"
       => /\ ~Issued("create")
          /\ ~Issued("read")
          /\ tokenReply.outcome = "resolved" => (pc \in {"authenticated", "exit"})

C4_Witness ==
    /\ pc = "exit"
    /\ templateFile.state = "missing"
    /\ Kinds(requests) = <<"token">>
    /\ exitCode = 1

\* C5: after a create call answered with success and an id X, the one read
\* request is for the record X under the instance URL, with the access
\* token, that the token endpoint answered.
C5_ReadBackUsesCreatedId ==
    (createReply.outcome = "resolved"
     /\ Get(createReply.response.data, "id") # Undefined
     /\ pc # "created")
    => /\ Issued("read")
       /\ \A i \in 1..Len(requests) :
            requests[i].kind = "read"
            => /\ requests[i].url =
                    ToStr(Get(tokenReply.response.data, "instance_url"))
                    \o "/services/data/v57.0/sobjects/Lead/"
                    \o Get(createReply.response.data, "id").s
               /\ requests[i].auth =
                    "Bearer " \o ToStr(Get(tokenReply.response.data, "access_token"))

C5_Witness ==
    /\ pc = "await_read"
    /\ requests[3].url = "https://b.example/services/data/v57.0/sobjects/Lead/00Q2"
    /\ requests[3].auth = "Bearer T2"

\* C6: saveLeadToFile returns the path of the file it wrote, and a failed
\* write reaches the top-level sequence as a failure.
C6_PersistContract ==
    /\ saved.outcome = "written" => saveResult = [t |-> "string", s |-> saved.name]
    /\ saved.outcome = "error" => (pc = "failed" /\ stderr[Len(stderr)].text = "Error:")

IsLeadFileName(n) ==
    /\ Len(n) > 10
    /\ SubSeq(n, 1, 5) = <<"l", "e", "a", "d", "-">>
    /\ SubSeq(n, Len(n) - 4, Len(n)) = <<".", "j", "s", "o", "n">>
    /\ \A i \in 6..(Len(n) - 5) : n[i] \notin {":", "."}

\* C7: the file an invocation writes is named lead-<timestamp>.json with
\* no ':' and no '.' in the timestamp, and its text parses to the details
\* the read endpoint answered.
C7_FileNameAndContent ==
    saved.outcome = "written"
    => /\ IsLeadFileName(saved.name)
       /\ \E f \in files :
            /\ f.name = saved.name
            /\ JSONParse(f.content) = readReply.response.data

C7_Witness ==
    /\ saved.outcome = "written"
    /\ Get(readReply.response.data, "attributes") = Obj(<<Pair("type", Str("Lead"))>>)
    /\ saved.name = <<"l", "e", "a", "d", "-", "2", "0", "2", "6", "-", "1", "1", "-",
                      "0", "6", "T", "2", "3", "-", "5", "9", "-", "5", "9", "-",
                      "9", "9", "9", "Z", ".", "j", "s", "o", "n">>

\* the last write to the file that write i went to
LastWriteTo(i) ==
    CHOOSE k \in i..Len(history) :
        /\ history[k].name = history[i].name
        /\ \A m \in (k + 1)..Len(history) : history[m].name # history[i].name

C9_OneRequestInFlight ==
    /\ Cardinality(inflight) <= 1
    /\ Issued("create") => tokenReply # NoReply
    /\ Issued("read") => createReply # NoReply
    /\ \A r \in inflight :
         /\ r.kind = "token" => pc = "await_token"
         /\ r.kind = "create" => pc = "await_create"
         /\ r.kind = "read" => pc = "await_read"

C9_Witness ==
    /\ pc = "await_read"
    /\ Cardinality(inflight) = 1
    /\ tokenReply.outcome = "resolved"
    /\ createReply.outcome = "resolved"

\* C10: what authenticateSalesforce returns after a 2xx answer is the body
\* of that answer, field for field.
C10_AuthReturnsBody ==
    tokenReply.outcome = "resolved" => authResponse = tokenReply.response.data

C10_Witness ==
    /\ pc = "authenticated"
    /\ Get(authResponse, "token_type") = Str("Bearer")
    /\ Get(authResponse, "access_token") = Str("T2")

\* the answer, if any, that reported a failure in this invocation
FailedReplies == {r \in {tokenReply, createReply, readReply} : r.outcome = "rejected"}

Count(kind) == Cardinality({i \in 1..Len(requests) : requests[i].kind = kind})

\* the request a reply answers
KindOf(r) ==
    CASE r = tokenReply /\ tokenReply.outcome # "none" -> "token"
      [] r = createReply /\ createReply.outcome # "none" -> "create"
      [] OTHER -> "read"

\* C12: an invocation issues each of the three requests at most once and
\* nothing but them (a POST for the token, a POST to create, a GET to
\* read); once one of them has failed the invocation has ended, the failed
\* request is the last one issued, none is in flight and no file was
\* written.
C12_NoRetryNoRollback ==
    /\ \A kind \in {"token", "create", "read"} : Count(kind) <= 1
    /\ \A i \in 1..Len(requests) :
         /\ requests[i].kind \in {"token", "create", "read"}
         /\ requests[i].method = (IF requests[i].kind = "read" THEN "get" ELSE "post")
    /\ \A r \in FailedReplies :
         /\ pc = "failed"
         /\ inflight = {}
         /\ requests[Len(requests)].kind = KindOf(r)
         /\ Cardinality(FailedReplies) = 1
         /\ saved = NotSaved
         /\ \A i \in 1..Len(history) : history[i].run # run

C12_Witness ==
    /\ pc = "failed"
    /\ createReply.outcome = "resolved"
    /\ readReply.outcome = "rejected"
    /\ Kinds(requests) = <<"token", "create", "read">>
    /\ saved = NotSaved

\* position in the order grant_type, client_id, client_secret, username,
\* password of the earliest key that config lacks
EarliestLacking(config) ==
    CHOOSE i \in 1..Len(ConfigKeys) :
        /\ ConfigKeys[i] \in Lacking(config)
        /\ \A j \in 1..(i - 1) : ConfigKeys[j] \notin Lacking(config)

\* C13: when the configuration lacks one or more required fields, exactly
\* one message is printed, and it names the lacking field that comes
\* first in the order grant_type, client_id, client_secret, username,
\* password; nothing is reported about the later ones.
C13_FirstMissingFieldReported ==
    (configFile.state = "parsed" /\ Lacking(configFile.value) # {} /\ pc # "start")
    => stderr = <<Log("Error: Missing required field in configuration file.",
                      Str(ConfigKeys[EarliestLacking(configFile.value)]))>>

C13_Witness ==
    /\ pc = "exit"
    /\ configFile.state = "parsed"
    /\ Lacking(configFile.value) = {"client_id", "username", "password"}
    /\ stderr[1].arg = Str("client_id")

Terminal == pc \in {"exit", "failed", "done"}

NoStepTwice == \A i, j \in 1..Len(trace) : trace[i] = trace[j] => i = j

\* C14: when every issued request is answered in the end, an invocation
\* reaches its end (file written or write failure reported, early exit, or
\* failure reported by the top-level catch) and does nothing after it, and
\* on the way no step starts or finishes twice.
C14_RunTerminates ==
    /\ []NoStepTwice
    /\ (pc = "start") ~> Terminal
    /\ [][Terminal => UNCHANGED vars]_vars

C14_Witness ==
    /\ pc = "done"
    /\ Len(trace) = 10
    /\ NoStepTwice

\* C15: after a create call answered with success, the read request is
\* issued whether or not the answer carries an id; without an id the
\* create step still counts as done and the read request is built from
\* the undefined identifier.
C15_ReadIssuedWithoutId ==
    (createReply.outcome = "resolved" /\ pc # "created")
    => /\ Issued("read")
       /\ IsPrefix(<<"authenticate:start", "authenticate:ok", "template:start",
                     "template:ok", "create:start", "create:ok", "read:start">>, trace)
       /\ Get(createReply.response.data, "id") = Undefined
          => \A i \in 1..Len(requests) :
               requests[i].kind = "read"
               => requests[i].url =
                    ToStr(Get(tokenReply.response.data, "instance_url"))
                    \o "/services/data/v57.0/sobjects/Lead/undefined"

C15_Witness ==
    /\ pc = "await_read"
    /\ Get(createReply.response.data, "id") = Undefined
    /\ requests[3].kind = "read"
    /\ requests[3].url = "https://a.example/services/data/v57.0/sobjects/Lead/undefined"

====
